---- MODULE Spec2Model ----
(***************************************************************************)
(* Model of the text-diffing engine of Smart-Diff (src/utils/diffEngine.ts) *)
(* A text is a finite sequence of UTF-16 code units (integers), a token is  *)
(* a non-empty subsequence of a text, and a DiffPart is a record            *)
(* [value, added, removed].  An optional property of a DiffPart that the    *)
(* code leaves unset (undefined) is FALSE here: the code only ever compares *)
(* these properties with === and only ever sets them to true.               *)
(*                                                                          *)
(* computeDiff is modelled as a sequential program, its position in pc:     *)
(*   "idle" -> "call" -> "fill" -> "backtrace" -> "merge" -> "done"         *)
(***************************************************************************)
EXTENDS Integers, Sequences, FiniteSets, TLC

\* ------------------------------------------------------------------ bounds
\* Longest input text, in code units.
MaxLen == 3

\* Most calls in one behaviour of SpecCalls.
MaxCalls == 4

\* ------------------------------------------------------- character classes
\* The code units the short inputs are drawn from: one of each class of the
\* tokenizer's regular expression: 'a' (word), U+4E2D (CJK), ' ' (whitespace)
\* and '!' (anything else).
Alphabet == {97, 20013, 32, 33}

\* First and last code unit of the class [\u4e00-\u9fa5].
CJKFirst == 19968
CJKLast == 40869

\* [a-zA-Z0-9_]
IsWordChar(c) == (c \in 97..122) \/ (c \in 65..90) \/ (c \in 48..57) \/ c = 95

\* [\u4e00-\u9fa5]
IsCJK(c) == c \in CJKFirst..CJKLast

\* \s of an ECMAScript regular expression without the u flag.
IsSpace(c) ==
    \/ c \in 9..13
    \/ c \in {32, 160, 5760, 8232, 8233, 8239, 8287, 12288, 65279}
    \/ c \in 8192..8202

\* [^a-zA-Z0-9_\s\u4e00-\u9fa5]
IsOther(c) == ~IsWordChar(c) /\ ~IsSpace(c) /\ ~IsCJK(c)

Texts == UNION {[1..n -> Alphabet] : n \in 0..MaxLen}

\* Longer argument pairs, with code units outside Alphabet:
\*   "Hi" U+4F60 U+597D  and  "Hi" U+4F60
\*   "Hello" U+4F60 U+597D "!"  and  "Hello!"
\*   U+4E00 U+9FA5 U+4DFF U+9FA6  and  U+4DFF U+9FA6  (the ends of the CJK
\*       class and their neighbours outside it)
\*   space, line feed, tab  and  tab, space
\*   "abc123_x"  and  the empty text
Examples ==
    { << <<72, 105, 20320, 22909>>, <<72, 105, 20320>> >>,
      << <<72, 101, 108, 108, 111, 20320, 22909, 33>>, <<72, 101, 108, 108, 111, 33>> >>,
      << <<19968, 40869, 19967, 40870>>, <<19967, 40870>> >>,
      << <<32, 10, 9>>, <<9, 32>> >>,
      << <<97, 98, 99, 49, 50, 51, 95, 120>>, << >> >> }

\* The argument pairs a call is made with.
Inputs == (Texts \X Texts) \cup Examples

\* ---------------------------------------------------------------- tokenize
\* RunEnd for classes without the quantifier +.
RunEnd_One(text, p, cls) == p

\* The greedy quantifier +: the last position q >= p such that text[p..q] are
\* all of the class, given that text[p] is.
RECURSIVE RunEnd(_, _, _)
RunEnd(text, p, cls) ==
    IF p < Len(text) /\ ( \/ cls = "word" /\ IsWordChar(text[p + 1])
                          \/ cls = "space" /\ IsSpace(text[p + 1])
                          \/ cls = "other" /\ IsOther(text[p + 1]) )
    THEN RunEnd(text, p + 1, cls)
    ELSE p

\* MatchEnd for an expression whose CJK alternative is [\u4e00-\u9fa5]+.
RECURSIVE CJKRunEnd(_, _)
CJKRunEnd(text, p) ==
    IF p < Len(text) /\ IsCJK(text[p + 1]) THEN CJKRunEnd(text, p + 1) ELSE p

MatchEnd_CJKRun(text, p) ==
    IF IsWordChar(text[p]) THEN RunEnd(text, p, "word")
    ELSE IF IsCJK(text[p]) THEN CJKRunEnd(text, p)
    ELSE IF IsSpace(text[p]) THEN RunEnd(text, p, "space")
    ELSE IF IsOther(text[p]) THEN RunEnd(text, p, "other")
    ELSE p - 1

\* MatchEnd for an expression whose whitespace alternative is \s.
MatchEnd_SpaceOne(text, p) ==
    IF IsWordChar(text[p]) THEN RunEnd(text, p, "word")
    ELSE IF IsCJK(text[p]) THEN p
    ELSE IF IsSpace(text[p]) THEN p
    ELSE IF IsOther(text[p]) THEN RunEnd(text, p, "other")
    ELSE p - 1

\* MatchEnd for an expression that lacks the alternative \s+.
MatchEnd_NoSpace(text, p) ==
    IF IsWordChar(text[p]) THEN RunEnd(text, p, "word")
    ELSE IF IsCJK(text[p]) THEN p
    ELSE IF IsOther(text[p]) THEN RunEnd(text, p, "other")
    ELSE p - 1

\* One match attempt of the regular expression at position p: the position of
\* the last code unit of the match, or p - 1 when no alternative matches.  The
\* alternatives are tried in the order they are written.
MatchEnd(text, p) ==
    IF IsWordChar(text[p]) THEN RunEnd(text, p, "word")
    ELSE IF IsCJK(text[p]) THEN p
    ELSE IF IsSpace(text[p]) THEN RunEnd(text, p, "space")
    ELSE IF IsOther(text[p]) THEN RunEnd(text, p, "other")
    ELSE p - 1

\* String.prototype.match with a /g expression: all matches from left to
\* right, each search starting where the previous match ended; a position
\* where nothing matches is passed over.
RECURSIVE MatchAll(_, _)
MatchAll(text, p) ==
    IF p > Len(text) THEN << >>
    ELSE LET e == MatchEnd(text, p)
         IN  IF e < p THEN MatchAll(text, p + 1)
             ELSE << SubSeq(text, p, e) >> \o MatchAll(text, e + 1)

tokenize(text) == IF Len(text) = 0 THEN << >> ELSE MatchAll(text, 1)

\* ------------------------------------------------------------------- state
VARIABLES
    oldText, newText,      \* the arguments of the call
    pc,                    \* position in computeDiff
    oldTokens, newTokens,  \* tokenize(oldText), tokenize(newText)
    lcsMatrix,             \* [0..N] -> [0..M] -> Nat
    fillI,                 \* i of the matrix loop (line 37)
    i, j,                  \* i, j of the backtrack loop (lines 48-49)
    parts,                 \* the DiffPart objects made by the backtrack
    mergedParts,           \* references (indices into parts) pushed so far
    current,               \* reference (index into parts) held by current
    k,                     \* k of the merge loop (line 70)
    calls,                 \* history: the number of calls made so far
    probe                  \* history: << >>, or one earlier call, its
                           \* arguments and the list it returned

\* The state of App (src/App.tsx), of its ApiKeyModal and of the browser.
VARIABLES
    originalText, modifiedText,  \* useState, lines 28-29 (code units)
    selectedPersonaId,           \* useState, line 36
    question,                    \* useState, line 39
    apiKeys,                     \* useState, line 42: list of StoredKey
    isKeyModalOpen,              \* useState, line 43
    keyView,                     \* view of ApiKeyModal: "list" or "add"
    history,                     \* useState, line 46: list of HistoryItem
    isHistoryOpen,               \* useState, line 47
    messages,                    \* useState, line 50: list of ChatMessage
    isAnalyzing,                 \* useState, line 51
    chatSessionRef,              \* useRef, line 52: NoSession or a session
    storedKeys,                  \* localStorage item 'gemini_api_keys'
    storedHistory,               \* localStorage item 'gemini_diff_history'
    flight,                      \* the handlers suspended at an await on the AI
                                 \* service, each with the values its closure holds
    micro,                       \* the continuation queued as a microtask, if any
    nextId,                      \* next value of crypto.randomUUID in App
    requests,                    \* the number of requests made to the AI service
    edits,                       \* the number of changes made to the inputs
    nextKeyId,                   \* next value of crypto.randomUUID in ApiKeyModal
    last,                        \* history: the handler or continuation that
                                 \* made the last step, and how it ended
    clearedSince,                \* history: handleClear ran and no
                                 \* handleStartAnalysis or handleLoadHistory since
    removedIds                   \* history: ids of the history items removed

appVars == << originalText, modifiedText, selectedPersonaId, question, apiKeys,
              isKeyModalOpen, keyView, history, isHistoryOpen, messages,
              isAnalyzing, chatSessionRef, storedKeys, storedHistory, flight,
              micro, nextId, requests, edits, nextKeyId, last,
              clearedSince, removedIds >>

diffVars == << oldText, newText, pc, oldTokens, newTokens, lcsMatrix, fillI, i, j,
               parts, mergedParts, current, k, calls, probe >>

vars == << diffVars, appVars >>

N == Len(oldTokens)
M == Len(newTokens)

Max(a, b) == IF a >= b THEN a ELSE b

\* ---------------------------------------------------------------- App data
\* App calls startAnalysisChat and sendFollowUpMessage at most MaxRequests
\* times in all; the user changes an input of the page (a text, the persona,
\* the question) at most MaxEdits times; at most MaxKeys keys are added to
\* the key list, and at most MaxPageKeys when the whole page is driven.
MaxRequests == 2
MaxEdits == 1
MaxKeys == 3
MaxPageKeys == 1

\* A Chat object: the one startAnalysisChat made for the request-th request
\* (geminiService.ts line 77), or the one resumeAnalysisChat made with a
\* history (line 124); NoSession is chatSessionRef.current = null.
NoSession == [kind |-> "null", request |-> 0, history |-> << >>]
StartedSession(request) == [kind |-> "started", request |-> request, history |-> << >>]
ResumedSession(msgs) == [kind |-> "resumed", request |-> 0, history |-> msgs]

\* saveHistory keeps the first 50 items (line 94).
HistoryCap == 50

\* DEFAULT_ORIGINAL and DEFAULT_MODIFIED (lines 16-17), cut to the code units
\* "G" and "Gp": App reads a text's length, its trim() and its identity only.
DEFAULT_ORIGINAL == << 71 >>
DEFAULT_MODIFIED == << 71, 112 >>

\* The texts a user types into an input: empty, a space, or content.
OriginalTexts == { << >>, << 32 >>, DEFAULT_ORIGINAL }
ModifiedTexts == { << >>, << 32 >>, DEFAULT_MODIFIED }
Questions == { << >>, << 63 >> }
FormTexts == { << >>, << 32 >>, << 32, 107 >> }
FollowUps == { << 32 >>, << 113 >> }

\* Ids of DEFAULT_PERSONAS (lines 19-24) the user selects among.
PersonaIds == { "general", "interviewer" }

\* String.prototype.trim on a text of code units.
RECURSIVE TrimStart(_)
TrimStart(t) ==
    IF Len(t) > 0 /\ IsSpace(Head(t)) THEN TrimStart(Tail(t)) ELSE t

RECURSIVE TrimEnd(_)
TrimEnd(t) ==
    IF Len(t) > 0 /\ IsSpace(t[Len(t)]) THEN TrimEnd(SubSeq(t, 1, Len(t) - 1)) ELSE t

Trim(t) == TrimEnd(TrimStart(t))

\* A string is truthy when it is not empty.
Truthy(t) == Len(t) > 0

\* The first n elements of s: s.slice(0, n).
Slice(s, n) == SubSeq(s, 1, IF Len(s) < n THEN Len(s) ELSE n)

\* localStorage holds no item under the key.
Absent == [present |-> FALSE, items |-> << >>]
Stored(items) == [present |-> TRUE, items |-> items]

\* The state of App after mount (lines 28-84) with a localStorage that
\* holds the key list stored, if any, and nothing else.
MountedWith(stored) ==
    /\ originalText = DEFAULT_ORIGINAL
    /\ modifiedText = DEFAULT_MODIFIED
    /\ selectedPersonaId = "general"
    /\ question = << >>
    /\ apiKeys = stored.items
    /\ isKeyModalOpen = FALSE
    /\ keyView = "add"
    /\ history = << >>
    /\ isHistoryOpen = FALSE
    /\ messages = << >>
    /\ isAnalyzing = FALSE
    /\ chatSessionRef = NoSession
    /\ storedKeys = stored
    /\ storedHistory = Absent
    /\ flight = << >>
    /\ micro = << >>
    /\ nextId = 1
    /\ requests = 0
    /\ edits = 0
    /\ nextKeyId = 1
    /\ last = "mount"
    /\ clearedSince = FALSE
    /\ removedIds = {}

\* App mounted with an empty localStorage.
InitApp == MountedWith(Absent)

\* No call of computeDiff has been made yet.
InitDiff ==
    /\ oldText = << >>
    /\ newText = << >>
    /\ pc = "idle"
    /\ oldTokens = << >>
    /\ newTokens = << >>
    /\ lcsMatrix = [r \in 0..0 |-> [c \in 0..0 |-> 0]]
    /\ fillI = 0
    /\ i = 0
    /\ j = 0
    /\ parts = << >>
    /\ mergedParts = << >>
    /\ current = 0
    /\ k = 0
    /\ calls = 0
    /\ probe = << >>

Init == InitDiff /\ InitApp

\* ------------------------------------------------------------- computeDiff
\* Line 25: computeDiff is called with two texts drawn from S.  The locals
\* hold whatever they held before until their declarations run.
CallWith(S) ==
    /\ pc = "idle"
    /\ \E args \in S : oldText' = args[1] /\ newText' = args[2]
    /\ pc' = "call"
    /\ calls' = calls + 1
    /\ UNCHANGED << oldTokens, newTokens, lcsMatrix, fillI, i, j, parts,
                    mergedParts, current, k, probe >>
    /\ UNCHANGED appVars

Call == CallWith(Inputs)

\* Lines 27-35: tokenize both texts, allocate the zero matrix.
Tokenize ==
    /\ pc = "call"
    /\ oldTokens' = tokenize(oldText)
    /\ newTokens' = tokenize(newText)
    /\ lcsMatrix' = [r \in 0..Len(oldTokens') |-> [c \in 0..Len(newTokens') |-> 0]]
    /\ fillI' = 1
    /\ pc' = "fill"
    /\ UNCHANGED << oldText, newText, i, j, parts, mergedParts, current, k >>
    /\ UNCHANGED << calls, probe >>
    /\ UNCHANGED appVars

\* FillFrom adding one to the larger neighbour where the tokens are equal.
RECURSIVE FillFrom_Neighbour(_, _, _)
FillFrom_Neighbour(m, r, jj) ==
    IF jj > M THEN m
    ELSE FillFrom_Neighbour(
            [m EXCEPT ![r][jj] =
                IF oldTokens[r] = newTokens[jj]
                THEN Max(m[r - 1][jj], m[r][jj - 1]) + 1
                ELSE Max(m[r - 1][jj], m[r][jj - 1])],
            r, jj + 1)

\* FillFrom taking the smaller neighbour where the tokens differ.
RECURSIVE FillFrom_Min(_, _, _)
FillFrom_Min(m, r, jj) ==
    IF jj > M THEN m
    ELSE FillFrom_Min(
            [m EXCEPT ![r][jj] =
                IF oldTokens[r] = newTokens[jj]
                THEN m[r - 1][jj - 1] + 1
                ELSE IF m[r - 1][jj] <= m[r][jj - 1]
                     THEN m[r - 1][jj] ELSE m[r][jj - 1]],
            r, jj + 1)

\* Lines 38-44, the inner loop for one row: columns jj..M of row r, given the
\* matrix m filled so far.
RECURSIVE FillFrom(_, _, _)
FillFrom(m, r, jj) ==
    IF jj > M THEN m
    ELSE FillFrom(
            [m EXCEPT ![r][jj] =
                IF oldTokens[r] = newTokens[jj]
                THEN m[r - 1][jj - 1] + 1
                ELSE Max(m[r - 1][jj], m[r][jj - 1])],
            r, jj + 1)

\* Lines 37-45: one iteration of the outer loop.
FillRow ==
    /\ pc = "fill"
    /\ fillI <= N
    /\ lcsMatrix' = FillFrom(lcsMatrix, fillI, 1)
    /\ fillI' = fillI + 1
    /\ UNCHANGED << oldText, newText, pc, oldTokens, newTokens, i, j, parts,
                    mergedParts, current, k >>
    /\ UNCHANGED << calls, probe >>
    /\ UNCHANGED appVars

\* FillDone for a parts that is declared outside computeDiff and so is not
\* made anew by each call.
FillDone_SharedParts ==
    /\ pc = "fill"
    /\ ~(fillI <= N)
    /\ i' = N
    /\ j' = M
    /\ pc' = "backtrace"
    /\ UNCHANGED << oldText, newText, oldTokens, newTokens, lcsMatrix, fillI,
                    parts, mergedParts, current, k >>
    /\ UNCHANGED << calls, probe >>
    /\ UNCHANGED appVars

\* Line 37 (loop exit) and lines 48-50.
FillDone ==
    /\ pc = "fill"
    /\ ~(fillI <= N)
    /\ i' = N
    /\ j' = M
    /\ parts' = << >>
    /\ pc' = "backtrace"
    /\ UNCHANGED << oldText, newText, oldTokens, newTokens, lcsMatrix, fillI,
                    mergedParts, current, k >>
    /\ UNCHANGED << calls, probe >>
    /\ UNCHANGED appVars

\* ---------------------------------------------------------------- backtrack
\* What reading lcsMatrix[r][c] gives: the cell, or undefined outside the
\* table.  (Reading a row that does not exist would throw instead; the reads
\* each condition makes are recorded so that this can be checked not to
\* happen.)
Undefined == -1
InTable(r, c) == r \in 0..N /\ c \in 0..M
Cell(r, c) == IF InTable(r, c) THEN lcsMatrix[r][c] ELSE Undefined

\* >= and < of numbers, false when an operand is undefined.
GE(a, b) == a # Undefined /\ b # Undefined /\ a >= b
LT(a, b) == a # Undefined /\ b # Undefined /\ a < b

\* The three conditions of the loop body at (ii, jj), evaluated left to right
\* with && and || short-circuiting: v is the value, r the matrix cells read.
\* Line 53.
CondUnchanged(ii, jj) ==
    [v |-> ii > 0 /\ jj > 0 /\ oldTokens[ii] = newTokens[jj], r |-> {}]

\* CondAdded with > for >=.
CondAdded_Strict(ii, jj) ==
    IF ~(jj > 0) THEN [v |-> FALSE, r |-> {}]
    ELSE IF ii = 0 THEN [v |-> TRUE, r |-> {}]
    ELSE [v |-> LT(Cell(ii - 1, jj), Cell(ii, jj - 1)),
          r |-> {<<ii, jj - 1>>, <<ii - 1, jj>>}]

\* Line 57.
CondAdded(ii, jj) ==
    IF ~(jj > 0) THEN [v |-> FALSE, r |-> {}]
    ELSE IF ii = 0 THEN [v |-> TRUE, r |-> {}]
    ELSE [v |-> GE(Cell(ii, jj - 1), Cell(ii - 1, jj)),
          r |-> {<<ii, jj - 1>>, <<ii - 1, jj>>}]

\* Line 60.
CondRemoved(ii, jj) ==
    IF ~(ii > 0) THEN [v |-> FALSE, r |-> {}]
    ELSE IF jj = 0 THEN [v |-> TRUE, r |-> {}]
    ELSE [v |-> LT(Cell(ii, jj - 1), Cell(ii - 1, jj)),
          r |-> {<<ii, jj - 1>>, <<ii - 1, jj>>}]

\* Branch preferring the removed branch when the two cells are equal.
Branch_TieRemoved(ii, jj) ==
    IF CondUnchanged(ii, jj).v THEN "unchanged"
    ELSE IF ii > 0 /\ (jj = 0 \/ GE(Cell(ii - 1, jj), Cell(ii, jj - 1))) THEN "removed"
    ELSE IF jj > 0 THEN "added"
    ELSE "none"

\* The branch of the if / else if / else if chain taken at (ii, jj).
Branch(ii, jj) ==
    IF CondUnchanged(ii, jj).v THEN "unchanged"
    ELSE IF CondAdded(ii, jj).v THEN "added"
    ELSE IF CondRemoved(ii, jj).v THEN "removed"
    ELSE "none"

\* The matrix cells one pass through the loop body at (ii, jj) reads.
CellsRead(ii, jj) ==
    IF CondUnchanged(ii, jj).v THEN CondUnchanged(ii, jj).r
    ELSE IF CondAdded(ii, jj).v
         THEN CondUnchanged(ii, jj).r \cup CondAdded(ii, jj).r
         ELSE CondUnchanged(ii, jj).r \cup CondAdded(ii, jj).r
                \cup CondRemoved(ii, jj).r

\* AddedPart and RemovedPart with the wrong tags.
AddedPart_AsRemoved(ii, jj) == [value |-> newTokens[jj], added |-> FALSE, removed |-> TRUE]
RemovedPart_AsAdded(ii, jj) == [value |-> oldTokens[ii], added |-> TRUE, removed |-> FALSE]
RemovedPart_BothTags(ii, jj) == [value |-> oldTokens[ii], added |-> TRUE, removed |-> TRUE]

\* The objects the three branches make (lines 54, 58, 61).
UnchangedPart(ii, jj) == [value |-> oldTokens[ii], added |-> FALSE, removed |-> FALSE]
AddedPart(ii, jj) == [value |-> newTokens[jj], added |-> TRUE, removed |-> FALSE]
RemovedPart(ii, jj) == [value |-> oldTokens[ii], added |-> FALSE, removed |-> TRUE]

\* push for unshift.
Unshift_Push(s, p) == Append(s, p)

\* parts.unshift(p)
Unshift(s, p) == << p >> \o s

\* Line 52: the loop condition.
LoopCond == i > 0 \/ j > 0

\* Lines 53-56.
BacktraceUnchanged ==
    /\ pc = "backtrace"
    /\ LoopCond
    /\ Branch(i, j) = "unchanged"
    /\ parts' = Unshift(parts, UnchangedPart(i, j))
    /\ i' = i - 1
    /\ j' = j - 1
    /\ UNCHANGED << oldText, newText, pc, oldTokens, newTokens, lcsMatrix,
                    fillI, mergedParts, current, k >>
    /\ UNCHANGED << calls, probe >>
    /\ UNCHANGED appVars

\* Lines 57-59.
BacktraceAdded ==
    /\ pc = "backtrace"
    /\ LoopCond
    /\ Branch(i, j) = "added"
    /\ parts' = Unshift(parts, AddedPart(i, j))
    /\ j' = j - 1
    /\ UNCHANGED << oldText, newText, pc, oldTokens, newTokens, lcsMatrix,
                    fillI, i, mergedParts, current, k >>
    /\ UNCHANGED << calls, probe >>
    /\ UNCHANGED appVars

\* Lines 60-63.
BacktraceRemoved ==
    /\ pc = "backtrace"
    /\ LoopCond
    /\ Branch(i, j) = "removed"
    /\ parts' = Unshift(parts, RemovedPart(i, j))
    /\ i' = i - 1
    /\ UNCHANGED << oldText, newText, pc, oldTokens, newTokens, lcsMatrix,
                    fillI, j, mergedParts, current, k >>
    /\ UNCHANGED << calls, probe >>
    /\ UNCHANGED appVars

\* ------------------------------------------------------------------- merge
\* current and the elements of mergedParts are references to objects of
\* parts: current.value += ... changes the object in place.
\* Line 52 (loop exit) and lines 67-69; with no part, line 85 returns [].
BacktraceExit ==
    /\ pc = "backtrace"
    /\ ~LoopCond
    /\ mergedParts' = << >>
    /\ IF Len(parts) > 0
       THEN current' = 1 /\ k' = 1 /\ pc' = "merge"
       ELSE pc' = "done" /\ UNCHANGED << current, k >>
    /\ UNCHANGED << oldText, newText, oldTokens, newTokens, lcsMatrix, fillI,
                    i, j, parts >>
    /\ UNCHANGED << calls, probe >>
    /\ UNCHANGED appVars

\* SameTags comparing one of the two tags only.
SameTags_AddedOnly(a, b) == a.added = b.added
SameTags_RemovedOnly(a, b) == a.removed = b.removed

\* Lines 72-75: parts[k] (the element at 0-based index k) has current's tags.
SameTags(a, b) == a.added = b.added /\ a.removed = b.removed

\* MergeJoin putting the next value in front of the current one.
MergeJoin_Prepend ==
    /\ pc = "merge"
    /\ k < Len(parts)
    /\ SameTags(parts[current], parts[k + 1])
    /\ parts' = [parts EXCEPT ![current].value = parts[k + 1].value \o @]
    /\ k' = k + 1
    /\ UNCHANGED << oldText, newText, pc, oldTokens, newTokens, lcsMatrix,
                    fillI, i, j, mergedParts, current >>
    /\ UNCHANGED << calls, probe >>
    /\ UNCHANGED appVars

\* Lines 70-76.
MergeJoin ==
    /\ pc = "merge"
    /\ k < Len(parts)
    /\ SameTags(parts[current], parts[k + 1])
    /\ parts' = [parts EXCEPT ![current].value = @ \o parts[k + 1].value]
    /\ k' = k + 1
    /\ UNCHANGED << oldText, newText, pc, oldTokens, newTokens, lcsMatrix,
                    fillI, i, j, mergedParts, current >>
    /\ UNCHANGED << calls, probe >>
    /\ UNCHANGED appVars

\* Lines 70-71, 77-80.
MergeNext ==
    /\ pc = "merge"
    /\ k < Len(parts)
    /\ ~SameTags(parts[current], parts[k + 1])
    /\ mergedParts' = Append(mergedParts, current)
    /\ current' = k + 1
    /\ k' = k + 1
    /\ UNCHANGED << oldText, newText, pc, oldTokens, newTokens, lcsMatrix,
                    fillI, i, j, parts >>
    /\ UNCHANGED << calls, probe >>
    /\ UNCHANGED appVars

\* Line 70 (loop exit) and line 82.
MergeExit ==
    /\ pc = "merge"
    /\ ~(k < Len(parts))
    /\ mergedParts' = Append(mergedParts, current)
    /\ pc' = "done"
    /\ UNCHANGED << oldText, newText, oldTokens, newTokens, lcsMatrix, fillI,
                    i, j, parts, current, k >>
    /\ UNCHANGED << calls, probe >>
    /\ UNCHANGED appVars

\* Returning parts for mergedParts.
Result_Raw == parts

\* Line 85: the list computeDiff returns.
Deref(refs, objs) == [n \in 1..Len(refs) |-> objs[refs[n]]]
Result == Deref(mergedParts, parts)

Next ==
    \/ Call
    \/ Tokenize
    \/ FillRow
    \/ FillDone
    \/ BacktraceUnchanged
    \/ BacktraceAdded
    \/ BacktraceRemoved
    \/ BacktraceExit
    \/ MergeJoin
    \/ MergeNext
    \/ MergeExit

Spec == Init /\ [][Next]_vars

\* ------------------------------------------------------- sequences of calls
\* The argument pairs of the calls of SpecCalls.
CallInputs ==
    Examples \cup { << << >>, << >> >>, << <<97>>, <<33>> >>, << << >>, <<97>> >> }

\* App.tsx line 126: the memo calls computeDiff again when a text changed.
CallAgain ==
    /\ calls < MaxCalls
    /\ CallWith(CallInputs)

\* Line 85: the call returns.  Nothing of the call is kept but the returned
\* list; the history may record this call, once, as the one later calls
\* are compared with.
Return ==
    /\ pc = "done"
    /\ pc' = "idle"
    /\ \/ probe' = probe
       \/ /\ probe = << >>
          /\ probe' = << [old |-> oldText, new |-> newText,
                          result |-> Result, at |-> calls] >>
    /\ UNCHANGED << oldText, newText, oldTokens, newTokens, lcsMatrix, fillI,
                    i, j, parts, mergedParts, current, k, calls >>
    /\ UNCHANGED appVars

NextCalls ==
    \/ CallAgain
    \/ Tokenize
    \/ FillRow
    \/ FillDone
    \/ BacktraceUnchanged
    \/ BacktraceAdded
    \/ BacktraceRemoved
    \/ BacktraceExit
    \/ MergeJoin
    \/ MergeNext
    \/ MergeExit
    \/ Return

\* Any number of calls up to MaxCalls, one after the other.
SpecCalls == Init /\ [][NextCalls]_vars

\* ------------------------------------------------------------ renderBackdrop
\* What diffParts.map gives for one part: null, or a span with a class and
\* the part's value as its text.
NullElement == [shown |-> FALSE, cls |-> "", text |-> << >>]
SpanElement(c, t) == [shown |-> TRUE, cls |-> c, text |-> t]

\* renderBackdrop hiding the added parts in both views.
renderBackdrop_HidesAdded(type, diffParts) ==
    [n \in 1..Len(diffParts) |->
        IF diffParts[n].added THEN NullElement
        ELSE IF diffParts[n].removed
             THEN SpanElement("bg-red-100 rounded-[2px]", diffParts[n].value)
             ELSE SpanElement("", diffParts[n].value)]

\* InputHighlighter.tsx lines 35-61.
renderBackdrop(type, diffParts) ==
    [n \in 1..Len(diffParts) |->
        IF type = "original"
        THEN IF diffParts[n].added THEN NullElement
             ELSE IF diffParts[n].removed
                  THEN SpanElement("bg-red-100 rounded-[2px]", diffParts[n].value)
                  ELSE SpanElement("", diffParts[n].value)
        ELSE IF diffParts[n].removed THEN NullElement
             ELSE IF diffParts[n].added
                  THEN SpanElement("bg-green-100 rounded-[2px]", diffParts[n].value)
                  ELSE SpanElement("", diffParts[n].value)]

\* Lines 67-85 as a function of the list it merges: cur is current, kk the
\* 1-based position of parts[k], acc is mergedParts.
RECURSIVE MergeLoop(_, _, _, _)
MergeLoop(ps, cur, kk, acc) ==
    IF kk > Len(ps) THEN Append(acc, cur)
    ELSE IF SameTags(cur, ps[kk])
         THEN MergeLoop(ps, [cur EXCEPT !.value = @ \o ps[kk].value], kk + 1, acc)
         ELSE MergeLoop(ps, ps[kk], kk + 1, Append(acc, cur))

MergePass(ps) == IF Len(ps) > 0 THEN MergeLoop(ps, ps[1], 2, << >>) ELSE << >>

\* ------------------------------------------------- vocabulary of the claims
RECURSIVE Flatten(_)
Flatten(ss) == IF Len(ss) = 0 THEN << >> ELSE Head(ss) \o Flatten(Tail(ss))

ValuesOf(ps) == [n \in 1..Len(ps) |-> ps[n].value]

IsUnchanged(p) == ~p.added /\ ~p.removed
NotRemoved(p) == ~p.removed
NotAdded(p) == ~p.added
IsAdded(p) == p.added
IsRemoved(p) == p.removed

Returned == pc = "done"

\* The backtrack loop has ended and the merge pass has not yet touched parts:
\* parts holds one object per token.
RawComplete == (pc = "backtrace" /\ ~LoopCond) \/ (pc = "merge" /\ k = 1)

UnchangedPartOf(v) == [value |-> v, added |-> FALSE, removed |-> FALSE]
AddedPartOf(v) == [value |-> v, added |-> TRUE, removed |-> FALSE]
RemovedPartOf(v) == [value |-> v, added |-> FALSE, removed |-> TRUE]

\* C1: in every returned list, the values of the spans that are not removed,
\* concatenated in order, are exactly newText.
C1_RoundTripModified ==
    Returned => Flatten(ValuesOf(SelectSeq(Result, NotRemoved))) = newText

\* A call that returned removed, unchanged and added spans.
C1_Witness ==
    /\ Returned
    /\ Len(Result) >= 3
    /\ \E n \in 1..Len(Result) : IsRemoved(Result[n])
    /\ \E n \in 1..Len(Result) : IsAdded(Result[n])
    /\ \E n \in 1..Len(Result) : IsUnchanged(Result[n]) /\ Len(Result[n].value) >= 2

\* C2: in every returned list, the values of the spans that are not added,
\* concatenated in order, are exactly oldText.
C2_RoundTripOriginal ==
    Returned => Flatten(ValuesOf(SelectSeq(Result, NotAdded))) = oldText

\* A call on two different texts of several tokens that returned a removed
\* span between two unchanged ones.
C2_Witness ==
    /\ Returned
    /\ N >= 3
    /\ \E n \in 2..(Len(Result) - 1) :
          /\ IsRemoved(Result[n])
          /\ IsUnchanged(Result[n - 1])
          /\ IsUnchanged(Result[n + 1])

\* C3: the tokens of a text, concatenated in order, are the text.
C3_TokensCoverText ==
    pc \notin {"idle", "call"} => /\ Flatten(oldTokens) = oldText
                   /\ Flatten(newTokens) = newText

\* A text tokenized into several tokens, one of them longer than one code unit.
C3_Witness ==
    /\ pc = "fill"
    /\ N >= 2
    /\ N < Len(oldText)
    /\ M = MaxLen

\* ------------------------------------------------------------------- C4
\* u is a subsequence of b.
RECURSIVE IsSubseq(_, _)
IsSubseq(u, b) ==
    IF Len(u) = 0 THEN TRUE
    ELSE IF Len(b) = 0 THEN FALSE
    ELSE IF Head(u) = Head(b) THEN IsSubseq(Tail(u), Tail(b))
    ELSE IsSubseq(u, Tail(b))

\* The elements of a at the positions in S, from position n on, in order.
RECURSIVE PickFrom(_, _, _)
PickFrom(a, S, n) ==
    IF n > Len(a) THEN << >>
    ELSE (IF n \in S THEN << a[n] >> ELSE << >>) \o PickFrom(a, S, n + 1)

\* Length of a longest common subsequence, by enumeration of the
\* subsequences of a.
LCSLen(a, b) ==
    LET lens == {Cardinality(S) : S \in {T \in SUBSET (1..Len(a)) :
                                            IsSubseq(PickFrom(a, T, 1), b)}}
    IN  CHOOSE m \in lens : \A x \in lens : x <= m

\* C4: when the backtrack ends, the tokens emitted as unchanged are a common
\* subsequence of oldTokens and newTokens of the length L of a longest one,
\* and N - L tokens were emitted as removed and M - L as added.
C4_MinimalAlignment ==
    RawComplete =>
        LET U == ValuesOf(SelectSeq(parts, IsUnchanged))
            L == LCSLen(oldTokens, newTokens)
        IN  /\ IsSubseq(U, oldTokens)
            /\ IsSubseq(U, newTokens)
            /\ Len(U) = L
            /\ Len(SelectSeq(parts, IsRemoved)) = N - L
            /\ Len(SelectSeq(parts, IsAdded)) = M - L

\* A backtrack over three old and three new tokens that differ at both ends
\* and share a subsequence of two.
C4_Witness ==
    /\ RawComplete
    /\ N >= 3
    /\ M >= 3
    /\ oldTokens[1] # newTokens[1]
    /\ oldTokens[N] # newTokens[M]
    /\ LCSLen(oldTokens, newTokens) = 2

\* ------------------------------------------------------------------- C5
\* C5: no span of a returned list has both added and removed set.
C5_TagsExclusive ==
    Returned => \A n \in 1..Len(Result) : ~(Result[n].added /\ Result[n].removed)

\* A returned list of four spans with all three kinds.
C5_Witness ==
    /\ Returned
    /\ Len(Result) >= 4
    /\ \E n \in 1..Len(Result) : IsRemoved(Result[n]) /\ ~IsAdded(Result[n])
    /\ \E n \in 1..Len(Result) : IsAdded(Result[n]) /\ ~IsRemoved(Result[n])
    /\ \E n \in 1..Len(Result) : IsUnchanged(Result[n])

\* ------------------------------------------------------------------- C6
\* C6: no two adjacent spans of a returned list have the same tags, and the
\* merge pass applied to a returned list gives the same list.
C6_MergedMaximal ==
    Returned =>
        /\ \A n \in 1..(Len(Result) - 1) : ~SameTags(Result[n], Result[n + 1])
        /\ MergePass(Result) = Result

\* A returned list of several spans, fewer than the tokens emitted.
C6_Witness ==
    /\ Returned
    /\ Len(Result) >= 2
    /\ Len(Result) < Len(parts)

\* ------------------------------------------------------------------- C7
\* C7: computeDiff(s, s) returns one unchanged span of value s when s is not
\* empty and the empty list when it is.
C7_Identity ==
    (Returned /\ oldText = newText) =>
        IF Len(oldText) = 0 THEN Result = << >>
        ELSE Result = << UnchangedPartOf(oldText) >>

\* A call on twice the same text of MaxLen tokens.
C7_Witness ==
    /\ Returned
    /\ oldText = newText
    /\ N = MaxLen
    /\ Len(Result) = 1

\* ------------------------------------------------------------------- C8
\* C8: computeDiff("", new) with new not empty returns one added span whose
\* value is new.
C8_PureInsertion ==
    (Returned /\ Len(oldText) = 0 /\ Len(newText) > 0) =>
        Result = << AddedPartOf(newText) >>

\* A call with an empty old text and a new text of several tokens.
C8_Witness ==
    /\ Returned
    /\ Len(oldText) = 0
    /\ M >= 2
    /\ Len(Result) = 1
    /\ IsAdded(Result[1])

\* ------------------------------------------------------------------- C9
\* C9: computeDiff(old, "") with old not empty returns one removed span whose
\* value is old.
C9_PureDeletion ==
    (Returned /\ Len(newText) = 0 /\ Len(oldText) > 0) =>
        Result = << RemovedPartOf(oldText) >>

\* A call with an empty new text and an old text of several tokens.
C9_Witness ==
    /\ Returned
    /\ Len(newText) = 0
    /\ N >= 2
    /\ Len(Result) = 1
    /\ IsRemoved(Result[1])

\* ------------------------------------------------------------------ C10
\* The number of branches of the loop body that can run in the current state.
BranchesEnabled ==
    (IF ENABLED BacktraceUnchanged THEN 1 ELSE 0)
    + (IF ENABLED BacktraceAdded THEN 1 ELSE 0)
    + (IF ENABLED BacktraceRemoved THEN 1 ELSE 0)

InLoop == pc = "backtrace" /\ LoopCond

\* At every position of the backtrack other than (0,0) exactly one branch
\* runs and every matrix cell the loop body reads is a cell of the table.
C10_LoopBodySafe ==
    InLoop =>
        /\ BranchesEnabled = 1
        /\ Branch(i, j) # "none"
        /\ \A rc \in CellsRead(i, j) : InTable(rc[1], rc[2])

\* Every pass through the loop body lowers i + j and keeps i and j in range.
C10_LoopBodyDecreases ==
    InLoop => /\ i' + j' < i + j
              /\ i' \in 0..N
              /\ j' \in 0..M

\* The loop is left at (0,0) only.
C10_ExitAtOrigin == pc \in {"merge", "done"} => (i = 0 /\ j = 0)

\* A call in the matrix loop or in the merge loop can take a step.  (The
\* backtrack loop is covered by C10_LoopBodySafe and by BacktraceExit, whose
\* condition is the negation of LoopCond; the first step, Tokenize, has no
\* condition.)
C10_NeverStuck == pc \in {"fill", "merge"} => ENABLED Next

\* A measure of the work a call has left: the phases still to run, then the
\* passes left in the loop of the current phase.
PhasesLeft ==
    CASE pc = "call" -> 4
      [] pc = "fill" -> 3
      [] pc = "backtrace" -> 2
      [] pc = "merge" -> 1
      [] OTHER -> 0

PassesLeft ==
    CASE pc = "fill" -> (N + 1) - fillI
      [] pc = "backtrace" -> i + j
      [] pc = "merge" -> Len(parts) - k
      [] OTHER -> 0

Rank == PhasesLeft * (Len(oldText) + Len(newText) + 2) + PassesLeft

\* Every step of a call lowers the measure, which stays a natural number.
C10_RankDecreases == pc # "idle" => (Rank' < Rank /\ Rank' >= 0)

\* C10: computeDiff is total: a call never stops before it has returned a
\* list and every step lowers a natural-number measure, so it terminates;
\* the backtrack loop ends at (0,0), at every other position exactly one of
\* its three branches runs, each pass lowers i + j, and no cell outside the
\* table is read.
C10_Total ==
    /\ [] C10_LoopBodySafe
    /\ [][C10_LoopBodyDecreases]_vars
    /\ [] C10_ExitAtOrigin
    /\ [] C10_NeverStuck
    /\ [][C10_RankDecreases]_vars

\* A call on two texts of MaxLen tokens each that has returned after passing
\* through all three branches.
C10_Witness ==
    /\ Returned
    /\ N = MaxLen
    /\ M = MaxLen
    /\ \E n \in 1..Len(Result) : IsRemoved(Result[n])
    /\ \E n \in 1..Len(Result) : IsAdded(Result[n])
    /\ \E n \in 1..Len(Result) : IsUnchanged(Result[n])


\* ------------------------------------------------------------------ C11
\* The backtrack is at a position inside the table where the two tokens
\* differ.
AtDiffering == InLoop /\ i > 0 /\ j > 0 /\ oldTokens[i] # newTokens[j]

\* The two steps a differing position allows.
EmitsAdded ==
    /\ parts' = << AddedPartOf(newTokens[j]) >> \o parts
    /\ i' = i
    /\ j' = j - 1

EmitsRemoved ==
    /\ parts' = << RemovedPartOf(oldTokens[i]) >> \o parts
    /\ i' = i - 1
    /\ j' = j

\* At a differing position the step emits an added span and moves to
\* (i, j-1) when cell(i, j-1) >= cell(i-1, j), equality included, and emits
\* a removed span and moves to (i-1, j) only when cell(i, j-1) < cell(i-1, j).
C11_StepAtDiffering ==
    AtDiffering =>
        IF lcsMatrix[i][j - 1] >= lcsMatrix[i - 1][j]
        THEN EmitsAdded /\ ~EmitsRemoved
        ELSE EmitsRemoved /\ ~EmitsAdded

\* One token replaced by a different one gives [removed X, added Y].
C11_SingleReplacement ==
    (Returned /\ N = 1 /\ M = 1 /\ oldTokens[1] # newTokens[1]) =>
        Result = << RemovedPartOf(oldTokens[1]), AddedPartOf(newTokens[1]) >>

\* C11: where the tokens differ and cell(i,j-1) = cell(i-1,j) the backtrack
\* emits an added span and moves left; a removed span is emitted only when
\* cell(i,j-1) < cell(i-1,j); a single replaced token gives [removed, added].
C11_TieBreak ==
    /\ [][C11_StepAtDiffering]_vars
    /\ [] C11_SingleReplacement

\* The backtrack has just emitted an added span at a position (i, j+1) where
\* the tokens differ and the two cells are equal and not zero.
C11_Witness ==
    /\ pc = "backtrace"
    /\ i > 0
    /\ j < M
    /\ Len(parts) >= 1
    /\ IsAdded(parts[1])
    /\ oldTokens[i] # newTokens[j + 1]
    /\ lcsMatrix[i][j] = lcsMatrix[i - 1][j + 1]
    /\ lcsMatrix[i][j] > 0


\* ------------------------------------------------------------------ C12
\* Both texts have been tokenized.
\* tokenize has just returned the two token lists (lines 26-27); no later
\* line assigns them.
Tokenized == pc = "fill" /\ fillI = 1

\* A code unit in U+4E00..U+9FA5.
InCJKRange(c) == c >= 19968 /\ c <= 40869

CJKCount(text) == Cardinality({n \in 1..Len(text) : InCJKRange(text[n])})

\* Every token of toks that holds a code unit of the range is that code unit
\* alone, and text has as many such tokens as such code units.
CJKAlone(text, toks) ==
    /\ \A n \in 1..Len(toks) :
          (\E q \in 1..Len(toks[n]) : InCJKRange(toks[n][q])) => Len(toks[n]) = 1
    /\ Cardinality({n \in 1..Len(toks) : InCJKRange(toks[n][1])}) = CJKCount(text)

HelloNiHao == <<72, 101, 108, 108, 111, 20320, 22909, 33>>

\* C12: a token that holds a code unit of U+4E00..U+9FA5 has length one, so k
\* adjacent such code units give k tokens; "Hello" U+4F60 U+597D "!" gives
\* ["Hello", U+4F60, U+597D, "!"].
C12_CJKSingle ==
    Tokenized =>
        /\ CJKAlone(oldText, oldTokens)
        /\ CJKAlone(newText, newTokens)
        /\ (oldText = HelloNiHao =>
                oldTokens = << <<72, 101, 108, 108, 111>>, <<20320>>, <<22909>>, <<33>> >>)

\* The text "Hello" U+4F60 U+597D "!" has been tokenized.
C12_Witness ==
    /\ Tokenized
    /\ oldText = HelloNiHao
    /\ N = 4

\* Three adjacent CJK code units have been tokenized into three tokens.
C12_WitnessRun ==
    /\ Tokenized
    /\ CJKCount(newText) = MaxLen
    /\ M = MaxLen


\* ------------------------------------------------------------------ C13
\* The class of a code unit: word [A-Za-z0-9_], CJK, whitespace or other.
ClassOf(c) ==
    IF (c >= 97 /\ c <= 122) \/ (c >= 65 /\ c <= 90) \/ (c >= 48 /\ c <= 57) \/ c = 95
    THEN "word"
    ELSE IF InCJKRange(c) THEN "cjk"
    ELSE IF IsSpace(c) THEN "space"
    ELSE "other"

\* Every token of toks is of one class, and no two adjacent tokens are both
\* word, both whitespace or both other.
MaximalRuns(toks) ==
    /\ \A n \in 1..Len(toks) :
          /\ Len(toks[n]) >= 1
          /\ \A q \in 1..Len(toks[n]) : ClassOf(toks[n][q]) = ClassOf(toks[n][1])
    /\ \A n \in 1..(Len(toks) - 1) :
          ClassOf(toks[n][1]) = ClassOf(toks[n + 1][1]) => ClassOf(toks[n][1]) = "cjk"

\* C13: every token is made of code units of a single class, and no two
\* adjacent tokens are both word, both whitespace or both symbol tokens.
C13_MaximalRuns ==
    Tokenized => MaximalRuns(oldTokens) /\ MaximalRuns(newTokens)

\* A text of a run of two code units of one class followed by a token of
\* another class has been tokenized.
C13_Witness ==
    /\ Tokenized
    /\ M = 2
    /\ Len(newTokens[1]) = 2
    /\ ClassOf(newTokens[1][1]) \in {"word", "space", "other"}
    /\ ClassOf(newTokens[2][1]) # ClassOf(newTokens[1][1])


\* ------------------------------------------------------------------ C14
\* "Hi" U+4F60 U+597D and "Hi" U+4F60.
HiNiHao == <<72, 105, 20320, 22909>>
HiNi == <<72, 105, 20320>>

\* C14: computeDiff("Hi" U+4F60 U+597D, "Hi" U+4F60) tokenizes the texts as
\* ["Hi", U+4F60, U+597D] and ["Hi", U+4F60] and returns an unchanged span
\* "Hi" U+4F60 followed by a removed span U+597D.
C14_MixedScript ==
    (oldText = HiNiHao /\ newText = HiNi) =>
        /\ Tokenized =>
              /\ oldTokens = << <<72, 105>>, <<20320>>, <<22909>> >>
              /\ newTokens = << <<72, 105>>, <<20320>> >>
        /\ Returned =>
              Result = << UnchangedPartOf(HiNi), RemovedPartOf(<<22909>>) >>

\* That call has returned.
C14_Witness ==
    /\ Returned
    /\ oldText = HiNiHao
    /\ newText = HiNi
    /\ Len(Result) = 2


\* ------------------------------------------------------------------ C15
\* The call that has just returned has the arguments of the recorded call.
SameAsProbe ==
    /\ Returned
    /\ Len(probe) = 1
    /\ probe[1].old = oldText
    /\ probe[1].new = newText

\* A call with the arguments of an earlier call returns an equal list.
C15_SameResult == SameAsProbe => Result = probe[1].result

\* No step of a call changes the list an earlier call returned.
C15_ProbeKept == pc \in {"call", "fill", "backtrace", "merge"} => probe' = probe

\* C15: two calls with the same arguments return equal lists whatever calls
\* were made before or between them, and no step of a call changes a list
\* returned earlier.
C15_Deterministic ==
    /\ [] C15_SameResult
    /\ [][C15_ProbeKept]_vars

\* The fourth call has returned several spans; the second call was recorded
\* and had the same arguments; one call was made before it and one between
\* the two.
C15_Witness ==
    /\ SameAsProbe
    /\ probe[1].at = 2
    /\ calls = 4
    /\ Len(Result) >= 2


\* ------------------------------------------------------------------ C16
IsShown(e) == e.shown

\* The text of the elements a view shows, in order.
ViewText(els) ==
    LET shown == SelectSeq(els, IsShown)
    IN  Flatten([n \in 1..Len(shown) |-> shown[n].text])

OriginalView == renderBackdrop("original", Result)
ModifiedView == renderBackdrop("modified", Result)

\* C16: with diffParts the list computeDiff returned, the original view
\* shows exactly the spans that are not added and the modified view exactly
\* those that are not removed, each with its value, in order; the text of the
\* original view is oldText and the text of the modified view is newText.
C16_ViewsFaithful ==
    Returned =>
        /\ \A n \in 1..Len(Result) :
              /\ OriginalView[n].shown = ~Result[n].added
              /\ ModifiedView[n].shown = ~Result[n].removed
              /\ OriginalView[n].shown => OriginalView[n].text = Result[n].value
              /\ ModifiedView[n].shown => ModifiedView[n].text = Result[n].value
        /\ ViewText(OriginalView) = oldText
        /\ ViewText(ModifiedView) = newText

\* Both views of a returned list with a removed and an added span, each view
\* hiding a span and showing a highlighted one.
C16_Witness ==
    /\ Returned
    /\ \E n \in 1..Len(Result) : ~OriginalView[n].shown /\ ModifiedView[n].cls = "bg-green-100 rounded-[2px]"
    /\ \E n \in 1..Len(Result) : ~ModifiedView[n].shown /\ OriginalView[n].cls = "bg-red-100 rounded-[2px]"
    /\ \E n \in 1..Len(Result) : OriginalView[n].shown /\ ModifiedView[n].shown


\* ------------------------------------------------------------------ C17
\* text is not empty and holds whitespace only (space, tab, line feed, ...).
WhitespaceOnly(text) ==
    /\ Len(text) > 0
    /\ \A q \in 1..Len(text) : IsSpace(text[q])

EdgeCases(text, toks) ==
    /\ Len(text) = 0 => toks = << >>
    /\ \A n \in 1..Len(toks) : Len(toks[n]) > 0
    /\ WhitespaceOnly(text) => toks = << text >>

\* C17: the empty text has no token, no token is ever empty, and a text of
\* whitespace only is one token, the whole text.
C17_TokenizeEdges ==
    Tokenized => EdgeCases(oldText, oldTokens) /\ EdgeCases(newText, newTokens)

\* A text of three different whitespace code units has been tokenized.
C17_Witness ==
    /\ Tokenized
    /\ oldText = <<32, 10, 9>>
    /\ N = 1

\* The empty text and a text of MaxLen spaces have been tokenized.
C17_WitnessEmpty ==
    /\ Tokenized
    /\ Len(oldText) = 0
    /\ WhitespaceOnly(newText)
    /\ Len(newText) = MaxLen


\* ------------------------------------------------------------------ C18
\* The matrix loop of lines 37-45 has ended.
TableFilled == pc = "fill" /\ ~(fillI <= N)

\* C18: when the matrix loop has ended, cell (r, c) of the table is the
\* length of a longest common subsequence of the first r old tokens and the
\* first c new tokens, for every r in 0..N and c in 0..M, and row 0 and
\* column 0 are zero.
C18_TableIsLCS ==
    TableFilled =>
        /\ \A r \in 0..N : \A c \in 0..M :
              lcsMatrix[r][c] = LCSLen(SubSeq(oldTokens, 1, r), SubSeq(newTokens, 1, c))
        /\ \A c \in 0..M : lcsMatrix[0][c] = 0
        /\ \A r \in 0..N : lcsMatrix[r][0] = 0

\* The matrix loop has ended on a table of MaxLen rows and columns whose last
\* cell is 2 although the last tokens differ.
C18_Witness ==
    /\ TableFilled
    /\ N = MaxLen
    /\ M = MaxLen
    /\ lcsMatrix[N][M] = 2
    /\ oldTokens[N] # newTokens[M]


\* ------------------------------------------------------------------ C19
\* The merge pass is running or about to start.
InMerge == pc = "merge" \/ (pc = "backtrace" /\ ~LoopCond)

\* The span list as the merge pass has it: the spans pushed, the current one
\* and the raw spans not yet looked at.  It is parts, one span per token,
\* when the pass starts and the returned list when it ends.
SpansOf(p, ps, mp, cur, kk) ==
    IF p = "merge"
    THEN Deref(mp, ps) \o << ps[cur] >> \o SubSeq(ps, kk + 1, Len(ps))
    ELSE IF p = "done" THEN Deref(mp, ps)
    ELSE ps

Spans == SpansOf(pc, parts, mergedParts, current, k)

\* t is s with its spans n and n + 1, of equal tags, joined into one.
JoinedAt(s, t, n) ==
    /\ SameTags(s[n], s[n + 1])
    /\ t = SubSeq(s, 1, n - 1)
             \o << [s[n] EXCEPT !.value = @ \o s[n + 1].value] >>
             \o SubSeq(s, n + 2, Len(s))

\* The code units of a span list in order, each with the tags of its span.
TaggedUnits(s) ==
    Flatten([n \in 1..Len(s) |->
                [q \in 1..Len(s[n].value) |-> << s[n].value[q], s[n].added, s[n].removed >>]])

\* C19: every step of the merge pass leaves the span list as it is or joins
\* two consecutive spans of equal tags, so that all values concatenated and
\* the tags of every code unit, in order, stay what the backtrack made them.
C19_MergeStep ==
    InMerge =>
        LET s == Spans
            t == SpansOf(pc', parts', mergedParts', current', k')
        IN  /\ t = s \/ \E n \in 1..(Len(s) - 1) : JoinedAt(s, t, n)
            /\ TaggedUnits(t) = TaggedUnits(s)

C19_MergePreserves == [][C19_MergeStep]_vars /\ [](pc = "done" => Spans = Result)

\* The merge pass has pushed a span and joined at least two tokens into the
\* current one.
C19_Witness ==
    /\ pc = "merge"
    /\ Len(mergedParts) >= 1
    /\ current < k
    /\ k < Len(parts)


\* ------------------------------------------------------------------ C20
IsChanged(p) == IsAdded(p) \/ IsRemoved(p)

\* The spans a..b of s are all changed ones.
ChangedRun(s, a, b) == \A n \in a..b : IsChanged(s[n])

\* C20: in the returned list no added span is immediately followed by a
\* removed span, and a stretch of changed spans (between unchanged spans or
\* a list end) has at most two spans, a removed one then an added one.
C20_RemovalsFirst ==
    Returned =>
        LET r == Result
        IN  /\ \A n \in 1..(Len(r) - 1) : ~(IsAdded(r[n]) /\ IsRemoved(r[n + 1]))
            /\ \A a \in 1..Len(r) : \A b \in a..Len(r) :
                   ChangedRun(r, a, b) =>
                       /\ b - a + 1 <= 2
                       /\ b = a + 1 => IsRemoved(r[a]) /\ IsAdded(r[b])

\* A returned list with a removed span then an added span between two
\* unchanged spans.
C20_Witness ==
    /\ Returned
    /\ \E n \in 1..(Len(Result) - 3) :
           /\ IsUnchanged(Result[n])
           /\ IsRemoved(Result[n + 1])
           /\ IsAdded(Result[n + 2])
           /\ IsUnchanged(Result[n + 3])


\* ============================================================ ApiKeyModal
\* Every handler below runs to its end, or to its first await on the AI
\* service, before the browser handles another event; a continuation queued
\* as a microtask runs before any event.
NoMicrotask == micro = << >>

\* Everything of App but the key list and the two key-modal fields.
appButKeys == << originalText, modifiedText, selectedPersonaId, question,
                 history, isHistoryOpen, messages, isAnalyzing, chatSessionRef,
                 storedHistory, flight, micro, nextId, requests, edits,
                 clearedSince, removedIds >>

\* App.tsx lines 87-90, called as setKeys by the modal.
handleUpdateKeys(newKeys) ==
    /\ apiKeys' = newKeys
    /\ storedKeys' = Stored(newKeys)

\* ApiKeyModal.tsx lines 30-35: the effect that follows a change of
\* keys.length while the modal is open.
ViewFor(keys) == IF Len(keys) = 0 THEN "add" ELSE "list"

\* ApiKeyModal.tsx line 76: keys are left and none of them is active.
Orphaned(keys) ==
    Len(keys) > 0 /\ ~(\E n \in 1..Len(keys) : keys[n].isActive)

\* handleDelete without line 76-78.
AfterDelete_NoActivate(keys, id) ==
    SelectSeq(keys, LAMBDA key : key.id # id)

\* ApiKeyModal.tsx lines 75-78: the list handleDelete passes to setKeys.
AfterDelete(keys, id) ==
    LET updatedKeys == SelectSeq(keys, LAMBDA key : key.id # id)
    IN  IF Orphaned(updatedKeys)
        THEN [updatedKeys EXCEPT ![1].isActive = TRUE]
        ELSE updatedKeys

\* ApiKeyModal.tsx lines 46-63.
handleAddKey(name, value) ==
    /\ NoMicrotask
    /\ isKeyModalOpen
    /\ IF ~Truthy(Trim(name)) \/ ~Truthy(Trim(value))
       THEN /\ UNCHANGED << apiKeys, storedKeys, keyView, nextKeyId >>
            /\ last' = "handleAddKey:blank"
       ELSE /\ last' = "handleAddKey"
            /\ handleUpdateKeys(Append(apiKeys,
                   [id |-> nextKeyId, name |-> Trim(name), value |-> Trim(value),
                    isActive |-> Len(apiKeys) = 0]))
            /\ keyView' = "list"
            /\ nextKeyId' = nextKeyId + 1
    /\ UNCHANGED isKeyModalOpen
    /\ UNCHANGED appButKeys
    /\ UNCHANGED diffVars

\* ApiKeyModal.tsx lines 65-71.
handleActivate(id) ==
    /\ NoMicrotask
    /\ isKeyModalOpen
    /\ handleUpdateKeys([n \in 1..Len(apiKeys) |->
                            [apiKeys[n] EXCEPT !.isActive = (apiKeys[n].id = id)]])
    /\ last' = "handleActivate"
    /\ UNCHANGED << isKeyModalOpen, keyView, nextKeyId >>
    /\ UNCHANGED appButKeys
    /\ UNCHANGED diffVars

\* ApiKeyModal.tsx lines 73-81; confirmed is the answer to confirm().
handleDelete(id, confirmed) ==
    /\ NoMicrotask
    /\ isKeyModalOpen
    /\ IF ~confirmed
       THEN /\ UNCHANGED << apiKeys, storedKeys, keyView >>
            /\ last' = "handleDelete:cancelled"
       ELSE /\ last' = IF Orphaned(AfterDelete_NoActivate(apiKeys, id))
                       THEN "handleDelete:activates"
                       ELSE "handleDelete"
            /\ handleUpdateKeys(AfterDelete(apiKeys, id))
            /\ keyView' = ViewFor(AfterDelete(apiKeys, id))
    /\ UNCHANGED << isKeyModalOpen, nextKeyId >>
    /\ UNCHANGED appButKeys
    /\ UNCHANGED diffVars

KeyIds == { apiKeys[n].id : n \in 1..Len(apiKeys) }

\* The handlers of the modal called with any form input and any listed key.
AddKey ==
    /\ nextKeyId <= MaxKeys
    /\ \E name \in FormTexts, value \in FormTexts : handleAddKey(name, value)
Activate == \E id \in KeyIds : handleActivate(id)
Delete == \E id \in KeyIds, confirmed \in BOOLEAN : handleDelete(id, confirmed)


\* ==================================================================== App
\* Line 122: the value of the first active key; << >> stands for undefined,
\* falsy like the empty string.
ActiveKeys == SelectSeq(apiKeys, LAMBDA key : key.isActive)
activeKey == IF Len(ActiveKeys) > 0 THEN ActiveKeys[1].value ELSE << >>

\* Line 127.
hasContent == Len(originalText) > 0 /\ Len(modifiedText) > 0

\* Everything of App that the inputs and the modal switches leave alone.
appCore == << apiKeys, storedKeys, history, messages, isAnalyzing,
              chatSessionRef, storedHistory, flight, micro, nextId, requests,
              nextKeyId,
              clearedSince, removedIds >>

\* onChange of the two InputHighlighters (lines 426, 446).
setOriginalText(t) ==
    /\ NoMicrotask
    /\ originalText' = t
    /\ edits' = edits + 1
    /\ last' = "input"
    /\ UNCHANGED << modifiedText, selectedPersonaId, question, isKeyModalOpen,
                    keyView, isHistoryOpen >>
    /\ UNCHANGED appCore
    /\ UNCHANGED diffVars

setModifiedText(t) ==
    /\ NoMicrotask
    /\ modifiedText' = t
    /\ edits' = edits + 1
    /\ last' = "input"
    /\ UNCHANGED << originalText, selectedPersonaId, question, isKeyModalOpen,
                    keyView, isHistoryOpen >>
    /\ UNCHANGED appCore
    /\ UNCHANGED diffVars

\* Lines 349 and 383.
setSelectedPersonaId(p) ==
    /\ NoMicrotask
    /\ selectedPersonaId' = p
    /\ edits' = edits + 1
    /\ last' = "input"
    /\ UNCHANGED << originalText, modifiedText, question, isKeyModalOpen,
                    keyView, isHistoryOpen >>
    /\ UNCHANGED appCore
    /\ UNCHANGED diffVars

setQuestion(q) ==
    /\ NoMicrotask
    /\ question' = q
    /\ edits' = edits + 1
    /\ last' = "input"
    /\ UNCHANGED << originalText, modifiedText, selectedPersonaId,
                    isKeyModalOpen, keyView, isHistoryOpen >>
    /\ UNCHANGED appCore
    /\ UNCHANGED diffVars

\* Lines 271 and 277; opening runs the effect of ApiKeyModal.tsx lines 30-35.
setIsKeyModalOpen(open) ==
    /\ NoMicrotask
    /\ isKeyModalOpen' = open
    /\ keyView' = IF open /\ ~isKeyModalOpen THEN ViewFor(apiKeys) ELSE keyView
    /\ last' = "setIsKeyModalOpen"
    /\ UNCHANGED edits
    /\ UNCHANGED << originalText, modifiedText, selectedPersonaId, question,
                    isHistoryOpen >>
    /\ UNCHANGED appCore
    /\ UNCHANGED diffVars

\* ApiKeyModal.tsx: "Add New" and "Back".
setView(v) ==
    /\ NoMicrotask
    /\ isKeyModalOpen
    /\ keyView' = v
    /\ last' = "setView"
    /\ UNCHANGED edits
    /\ UNCHANGED << originalText, modifiedText, selectedPersonaId, question,
                    isKeyModalOpen, isHistoryOpen >>
    /\ UNCHANGED appCore
    /\ UNCHANGED diffVars

\* Lines 272 and 284.
setIsHistoryOpen(open) ==
    /\ NoMicrotask
    /\ isHistoryOpen' = open
    /\ last' = "setIsHistoryOpen"
    /\ UNCHANGED edits
    /\ UNCHANGED << originalText, modifiedText, selectedPersonaId, question,
                    isKeyModalOpen, keyView >>
    /\ UNCHANGED appCore
    /\ UNCHANGED diffVars


\* -------------------------------------------------------- history and clear
ItemIds(items) == { items[n].id : n \in 1..Len(items) }

\* Everything of App that the three handlers below leave alone.
appButHistory == << selectedPersonaId, apiKeys, isKeyModalOpen, keyView,
                    isHistoryOpen, isAnalyzing, storedKeys, flight, micro, nextId,
                    requests, edits, nextKeyId >>

\* saveHistory putting the new item after the items its closure holds.
SavedHistory_Appended(newItem, closureHistory) ==
    Slice(closureHistory \o << newItem >>, HistoryCap)

\* Lines 93-97: the list saveHistory stores; closureHistory is the history of
\* the render whose saveHistory is called.
SavedHistory(newItem, closureHistory) ==
    Slice(<< newItem >> \o closureHistory, HistoryCap)

\* Lines 99-102.
handleClearHistory ==
    /\ NoMicrotask
    /\ history' = << >>
    /\ storedHistory' = Absent
    /\ removedIds' = removedIds \cup ItemIds(history)
    /\ last' = "handleClearHistory"
    /\ UNCHANGED << originalText, modifiedText, question, messages,
                    chatSessionRef, clearedSince >>
    /\ UNCHANGED appButHistory
    /\ UNCHANGED diffVars

\* Lines 104-108.
handleDeleteHistoryItem(id) ==
    /\ NoMicrotask
    /\ LET updated == SelectSeq(history, LAMBDA h : h.id # id)
       IN  /\ history' = updated
           /\ storedHistory' = Stored(updated)
    /\ removedIds' = removedIds \cup {id}
    /\ last' = "handleDeleteHistoryItem"
    /\ UNCHANGED << originalText, modifiedText, question, messages,
                    chatSessionRef, clearedSince >>
    /\ UNCHANGED appButHistory
    /\ UNCHANGED diffVars

\* Lines 258-264.
handleClear ==
    /\ NoMicrotask
    /\ originalText' = << >>
    /\ modifiedText' = << >>
    /\ messages' = << >>
    /\ question' = << >>
    /\ chatSessionRef' = NoSession
    /\ clearedSince' = TRUE
    /\ last' = "handleClear"
    /\ UNCHANGED << history, storedHistory, removedIds >>
    /\ UNCHANGED appButHistory
    /\ UNCHANGED diffVars


\* ------------------------------------------------------ handleStartAnalysis
\* What startAnalysisChat returns as initialResponse (geminiService.ts
\* line 91), what sendFollowUpMessage returns (line 145), and the message of
\* the error either throws ("" for none).
\* Message texts are code units like every text; the literals of the source
\* are cut to one or two code units: "A" for a text of the service, "N" for
\* the two defaults "Analysis generated, but no text returned." and
\* "No response.", "E:" for the prefix "Error: ", "F" for "Failed to start
\* analysis.", "G" for "Error generating response.".
InitialResponses == { << 65 >>, << 78 >> }
FollowUpResponses == { << 65 >>, << 78 >> }
ErrorMessages == { << >>, << 113 >> }

\* A handler suspended at an await, with the values of its closure that its
\* continuation reads: those of lines 163-172 for handleStartAnalysis,
\* updatedMessages (line 242) and text for handleSendMessage.
StartTask ==
    [kind |-> "start", history |-> history, originalText |-> originalText,
     modifiedText |-> modifiedText, persona |-> selectedPersonaId,
     question |-> question, messages |-> << >>, text |-> << >>,
     request |-> requests + 1]

SendTask(kind, msgs, text) ==
    [kind |-> kind, history |-> << >>, originalText |-> << >>,
     modifiedText |-> << >>, persona |-> "general",
     question |-> << >>, messages |-> msgs, text |-> text,
     request |-> IF kind = "send" THEN requests + 1 ELSE 0]

ChatMessage(id, role, text, isError) ==
    [id |-> id, role |-> role, text |-> text, isError |-> isError]

RemoveAt(s, n) == SubSeq(s, 1, n - 1) \o SubSeq(s, n + 1, Len(s))

\* Everything of App that no step of handleStartAnalysis writes.
appButStart == << originalText, modifiedText, selectedPersonaId, question,
                  apiKeys, storedKeys, isHistoryOpen, micro, nextKeyId, edits,
                  removedIds >>

\* Line 137 testing the length of the texts, as hasContent does.
BlankTexts_EmptyOnly == Len(originalText) = 0 \/ Len(modifiedText) = 0

\* Line 137.
BlankTexts == ~Truthy(Trim(originalText)) \/ ~Truthy(Trim(modifiedText))

\* Lines 131-141: up to the await of line 144.
handleStartAnalysis ==
    /\ NoMicrotask
    /\ IF ~Truthy(activeKey)
       THEN /\ isKeyModalOpen' = TRUE
            /\ keyView' = IF isKeyModalOpen THEN keyView ELSE ViewFor(apiKeys)
            /\ last' = "handleStartAnalysis:nokey"
            /\ UNCHANGED << isAnalyzing, messages, chatSessionRef, flight,
                            clearedSince, requests >>
       ELSE IF BlankTexts
       THEN /\ last' = "handleStartAnalysis:blank"
            /\ UNCHANGED << isKeyModalOpen, keyView, isAnalyzing, messages,
                            chatSessionRef, flight, clearedSince, requests >>
       ELSE /\ requests' = requests + 1
            /\ isAnalyzing' = TRUE
            /\ messages' = << >>
            /\ chatSessionRef' = NoSession
            /\ flight' = Append(flight, StartTask)
            /\ clearedSince' = FALSE
            /\ last' = "handleStartAnalysis"
            /\ UNCHANGED << isKeyModalOpen, keyView >>
    /\ UNCHANGED << history, storedHistory, nextId >>
    /\ UNCHANGED appButStart
    /\ UNCHANGED diffVars

\* Lines 153-172 and 183: startAnalysisChat resolved for the n-th suspended
\* handler.
StartResolves(n, initialResponse) ==
    /\ NoMicrotask
    /\ n \in 1..Len(flight)
    /\ flight[n].kind = "start"
    /\ LET task == flight[n]
           initialMessage == ChatMessage(nextId, "model", initialResponse, FALSE)
           historyItem ==
               [id |-> nextId + 1, originalText |-> task.originalText,
                modifiedText |-> task.modifiedText, persona |-> task.persona,
                question |-> task.question, messages |-> << initialMessage >>]
       IN  /\ chatSessionRef' = StartedSession(task.request)
           /\ messages' = << initialMessage >>
           /\ history' = SavedHistory(historyItem, task.history)
           /\ storedHistory' = Stored(SavedHistory(historyItem, task.history))
    /\ isAnalyzing' = FALSE
    /\ flight' = RemoveAt(flight, n)
    /\ nextId' = nextId + 2
    /\ last' = "handleStartAnalysis:resolved"
    /\ UNCHANGED << isKeyModalOpen, keyView, clearedSince, requests >>
    /\ UNCHANGED appButStart
    /\ UNCHANGED diffVars

\* The text of the message of lines 175-181.
StartErrorText(message) ==
    << 69, 58 >> \o (IF Truthy(message) THEN message ELSE << 70 >>)

\* handleStartAnalysis whose finally block does not run after a catch.
StartRejects_NoFinally(n, message) ==
    /\ NoMicrotask
    /\ n \in 1..Len(flight)
    /\ flight[n].kind = "start"
    /\ messages' = << ChatMessage(nextId, "model", StartErrorText(message), TRUE) >>
    /\ flight' = RemoveAt(flight, n)
    /\ nextId' = nextId + 1
    /\ last' = "handleStartAnalysis:rejected"
    /\ UNCHANGED << isKeyModalOpen, keyView, clearedSince, chatSessionRef,
                    history, storedHistory, isAnalyzing, requests >>
    /\ UNCHANGED appButStart
    /\ UNCHANGED diffVars

\* Lines 174-184: startAnalysisChat rejected for the n-th suspended handler.
StartRejects(n, message) ==
    /\ NoMicrotask
    /\ n \in 1..Len(flight)
    /\ flight[n].kind = "start"
    /\ messages' = << ChatMessage(nextId, "model", StartErrorText(message), TRUE) >>
    /\ isAnalyzing' = FALSE
    /\ flight' = RemoveAt(flight, n)
    /\ nextId' = nextId + 1
    /\ last' = "handleStartAnalysis:rejected"
    /\ UNCHANGED << isKeyModalOpen, keyView, clearedSince, chatSessionRef,
                    history, storedHistory, requests >>
    /\ UNCHANGED appButStart
    /\ UNCHANGED diffVars


\* -------------------------------------------------------- handleLoadHistory
\* Everything of App that no step of handleLoadHistory or handleSendMessage
\* writes.
appButChat == << apiKeys, storedKeys, isKeyModalOpen, keyView, history,
                 storedHistory, nextKeyId, edits, removedIds >>

\* Lines 187-225 up to the await of line 207; closes says whether the caller
\* closes the history drawer in the same event (InputHighlighter.tsx
\* line 196).  No persona of the model is a custom one (line 192).
handleLoadHistory(item, closes) ==
    /\ NoMicrotask
    /\ originalText' = item.originalText
    /\ modifiedText' = item.modifiedText
    /\ selectedPersonaId' = item.persona
    /\ question' = item.question
    /\ messages' = item.messages
    /\ isHistoryOpen' = IF closes THEN FALSE ELSE isHistoryOpen
    /\ clearedSince' = FALSE
    /\ IF Truthy(activeKey)
       THEN /\ isAnalyzing' = TRUE
            /\ micro' = << SendTask("load", item.messages, << >>) >>
            /\ last' = "handleLoadHistory"
            /\ UNCHANGED chatSessionRef
       ELSE /\ chatSessionRef' = NoSession
            /\ last' = "handleLoadHistory:nokey"
            /\ UNCHANGED << isAnalyzing, micro >>
    /\ UNCHANGED << flight, nextId, requests >>
    /\ UNCHANGED appButChat
    /\ UNCHANGED diffVars

\* Lines 216-221: resumeAnalysisChat resolved (resolved) or rejected.
LoadContinues(resolved) ==
    /\ micro # << >>
    /\ micro[1].kind = "load"
    /\ IF resolved
       THEN /\ chatSessionRef' = ResumedSession(micro[1].messages)
            /\ last' = "handleLoadHistory:resolved"
       ELSE /\ last' = "handleLoadHistory:rejected"
            /\ UNCHANGED chatSessionRef
    /\ isAnalyzing' = FALSE
    /\ micro' = << >>
    /\ UNCHANGED << originalText, modifiedText, selectedPersonaId, question,
                    messages, isHistoryOpen, clearedSince, flight, nextId,
                    requests >>
    /\ UNCHANGED appButChat
    /\ UNCHANGED diffVars

\* -------------------------------------------------------- handleSendMessage
\* Lines 241-247: the user message is shown and sendFollowUpMessage awaited;
\* msgs is the messages of the closure, id the next fresh id.
SendProceeds(msgs, text, id) ==
    LET userMsg == ChatMessage(id, "user", text, FALSE)
        updatedMessages == Append(msgs, userMsg)
    IN  /\ messages' = updatedMessages
        /\ isAnalyzing' = TRUE
        /\ flight' = Append(flight, SendTask("send", updatedMessages, text))
        /\ requests' = requests + 1

\* Lines 227-247 up to the first await: that of line 232 when the session is
\* lost and can be resumed, else that of line 247.
handleSendMessage(text) ==
    /\ NoMicrotask
    /\ IF chatSessionRef = NoSession
       THEN IF Truthy(activeKey) /\ Len(messages) > 0
            THEN /\ micro' = << SendTask("resume", messages, text) >>
                 /\ last' = "handleSendMessage:resuming"
                 /\ UNCHANGED << messages, isAnalyzing, flight, nextId, requests >>
            ELSE /\ last' = "handleSendMessage:nosession"
                 /\ UNCHANGED << messages, isAnalyzing, flight, nextId, micro,
                                 requests >>
       ELSE /\ SendProceeds(messages, text, nextId)
            /\ nextId' = nextId + 1
            /\ last' = "handleSendMessage"
            /\ UNCHANGED micro
    /\ UNCHANGED << originalText, modifiedText, selectedPersonaId, question,
                    isHistoryOpen, clearedSince, chatSessionRef >>
    /\ UNCHANGED appButChat
    /\ UNCHANGED diffVars

\* Lines 232-235 and 241-247: resumeAnalysisChat resolved or rejected.
SendResumes(resolved) ==
    /\ micro # << >>
    /\ micro[1].kind = "resume"
    /\ IF resolved
       THEN /\ chatSessionRef' = ResumedSession(micro[1].messages)
            /\ SendProceeds(micro[1].messages, micro[1].text, nextId)
            /\ nextId' = nextId + 1
            /\ last' = "handleSendMessage"
       ELSE /\ last' = "handleSendMessage:resumeRejected"
            /\ UNCHANGED << chatSessionRef, messages, isAnalyzing, flight, nextId,
                            requests >>
    /\ micro' = << >>
    /\ UNCHANGED << originalText, modifiedText, selectedPersonaId, question,
                    isHistoryOpen, clearedSince >>
    /\ UNCHANGED appButChat
    /\ UNCHANGED diffVars

\* Lines 248-249 and 254: sendFollowUpMessage resolved for the n-th suspended
\* handler.
SendResolves(n, responseText) ==
    /\ NoMicrotask
    /\ n \in 1..Len(flight)
    /\ flight[n].kind = "send"
    /\ messages' = Append(flight[n].messages,
                          ChatMessage(nextId, "model", responseText, FALSE))
    /\ isAnalyzing' = FALSE
    /\ flight' = RemoveAt(flight, n)
    /\ nextId' = nextId + 1
    /\ last' = "handleSendMessage:resolved"
    /\ UNCHANGED << originalText, modifiedText, selectedPersonaId, question,
                    isHistoryOpen, clearedSince, chatSessionRef, micro, requests >>
    /\ UNCHANGED appButChat
    /\ UNCHANGED diffVars

\* Lines 250-254: sendFollowUpMessage rejected for the n-th suspended handler.
SendRejects(n) ==
    /\ NoMicrotask
    /\ n \in 1..Len(flight)
    /\ flight[n].kind = "send"
    /\ messages' = Append(messages,
                          ChatMessage(nextId, "model", << 71 >>, TRUE))
    /\ isAnalyzing' = FALSE
    /\ flight' = RemoveAt(flight, n)
    /\ nextId' = nextId + 1
    /\ last' = "handleSendMessage:rejected"
    /\ UNCHANGED << originalText, modifiedText, selectedPersonaId, question,
                    isHistoryOpen, clearedSince, chatSessionRef, micro, requests >>
    /\ UNCHANGED appButChat
    /\ UNCHANGED diffVars


\* ------------------------------------------------- the handlers, called
HistoryItems == { history[n] : n \in 1..Len(history) }
Flights == 1..Len(flight)

SetOriginalText == edits < MaxEdits /\ \E t \in OriginalTexts : setOriginalText(t)
SetModifiedText == edits < MaxEdits /\ \E t \in ModifiedTexts : setModifiedText(t)
SetSelectedPersonaId == edits < MaxEdits /\ \E p \in PersonaIds : setSelectedPersonaId(p)
SetQuestion == edits < MaxEdits /\ \E q \in Questions : setQuestion(q)
SetIsKeyModalOpen == \E open \in BOOLEAN : setIsKeyModalOpen(open)
SetIsHistoryOpen == \E open \in BOOLEAN : setIsHistoryOpen(open)
SetView == \E v \in {"list", "add"} : setView(v)
DeleteHistoryItem == \E id \in ItemIds(history) : handleDeleteHistoryItem(id)
LoadHistory == \E item \in HistoryItems, closes \in BOOLEAN : handleLoadHistory(item, closes)
StartAnalysis == requests < MaxRequests /\ handleStartAnalysis
\* handleSend of the panel, the handler's only caller, passes on non-blank text.
SendMessage ==
    /\ requests < MaxRequests
    /\ \E text \in { t \in FollowUps : Truthy(Trim(t)) } : handleSendMessage(text)

\* The AI service answers a suspended handler, in any order.
StartSettles ==
    \E n \in Flights :
        \/ \E r \in InitialResponses : StartResolves(n, r)
        \/ \E e \in ErrorMessages : StartRejects(n, e)

SendSettles ==
    \E n \in Flights :
        \/ \E r \in FollowUpResponses : SendResolves(n, r)
        \/ SendRejects(n)

Microtask == \E resolved \in BOOLEAN : LoadContinues(resolved) \/ SendResumes(resolved)

\* ApiKeyModal alone, opened, with its handlers called in every state.
NextKeys ==
    \/ SetIsKeyModalOpen
    \/ SetView
    \/ AddKey
    \/ Activate
    \/ Delete

SpecKeys == Init /\ [][NextKeys]_vars

\* Lines 55-63: App mounted with a localStorage that holds no key list or a
\* list of one active key.
OneKey == << [id |-> 0, name |-> << 107 >>, value |-> << 107 >>, isActive |-> TRUE] >>

InitMounted ==
    /\ InitDiff
    /\ \E stored \in { Absent, Stored(OneKey) } : MountedWith(stored)

\* The handlers of App called in every state, as a test of the component
\* would.
NextApp ==
    \/ SetOriginalText
    \/ SetModifiedText
    \/ SetSelectedPersonaId
    \/ SetQuestion
    \/ handleClearHistory
    \/ DeleteHistoryItem
    \/ handleClear
    \/ StartAnalysis
    \/ StartSettles
    \/ LoadHistory
    \/ SendMessage
    \/ SendSettles
    \/ Microtask

SpecApp == InitMounted /\ [][NextApp]_vars


\* ================================================================== the UI
\* An open modal covers the page (ApiKeyModal.tsx line 93 and
\* InputHighlighter.tsx line 137: fixed inset-0 z-50), so that the controls
\* of the page take no pointer input.
Blocked == isKeyModalOpen \/ isHistoryOpen

\* The inputs of the page (App.tsx lines 347-351, 380-386, 424-450).
TypeOriginal == ~Blocked /\ SetOriginalText
TypeModified == ~Blocked /\ SetModifiedText
SelectPersona == ~Blocked /\ SetSelectedPersonaId
TypeQuestion == ~Blocked /\ SetQuestion

\* Header buttons (lines 271-272) and the close buttons of the modals.
ClickOpenSettings == ~Blocked /\ setIsKeyModalOpen(TRUE)
ClickOpenHistory == ~Blocked /\ setIsHistoryOpen(TRUE)
ClickCloseKeyModal == isKeyModalOpen /\ setIsKeyModalOpen(FALSE)
ClickCloseHistory == isHistoryOpen /\ setIsHistoryOpen(FALSE)

\* ApiKeyModal.tsx: "Add New" (line 119), "Back" (lines 219-227), the form
\* with its submit button disabled on blank input (lines 159, 228-231), a
\* key row (line 134) and its delete button (line 148).
ClickAddNew == keyView = "list" /\ setView("add")
ClickBack == keyView = "add" /\ Len(apiKeys) > 0 /\ setView("list")
SubmitKey ==
    /\ keyView = "add"
    /\ nextKeyId <= MaxPageKeys
    /\ \E name \in FormTexts, value \in FormTexts :
           /\ Truthy(Trim(name))
           /\ Truthy(Trim(value))
           /\ handleAddKey(name, value)
ClickKey == keyView = "list" /\ Activate
ClickDeleteKey == keyView = "list" /\ Delete

\* The Start Analysis button of App (lines 392-400), disabled without content
\* and while isAnalyzing.
ClickStart == ~Blocked /\ hasContent /\ ~isAnalyzing /\ StartAnalysis

\* The buttons of SummaryPanel that call onGenerate: "Restart Analysis"
\* when there are messages, else "Setup API Key" or "Start Analysis"; the
\* panel is rendered when hasContent (App.tsx line 312) and one of the three
\* is shown and enabled then.
ClickGenerate == ~Blocked /\ hasContent /\ StartAnalysis

\* The trash button of App (lines 402-409).
ClickClear == ~Blocked /\ handleClear

\* The follow-up form of SummaryPanel, rendered when there are messages;
\* handleSend returns on a blank input and while isLoading.
SubmitFollowUp ==
    /\ ~Blocked
    /\ hasContent
    /\ Len(messages) > 0
    /\ ~isAnalyzing
    /\ requests < MaxRequests
    /\ \E text \in FollowUps : Truthy(Trim(text)) /\ handleSendMessage(text)

\* HistoryModal (InputHighlighter.tsx lines 195-233).
ClickLoad == isHistoryOpen /\ \E item \in HistoryItems : handleLoadHistory(item, TRUE)
ClickDeleteItem == isHistoryOpen /\ DeleteHistoryItem
ClickClearAll == isHistoryOpen /\ Len(history) > 0 /\ handleClearHistory

\* App as a user of the rendered page drives it.
NextUI ==
    \/ TypeOriginal
    \/ TypeModified
    \/ SelectPersona
    \/ TypeQuestion
    \/ ClickOpenSettings
    \/ ClickOpenHistory
    \/ ClickCloseKeyModal
    \/ ClickCloseHistory
    \/ ClickAddNew
    \/ ClickBack
    \/ SubmitKey
    \/ ClickKey
    \/ ClickDeleteKey
    \/ ClickStart
    \/ ClickGenerate
    \/ ClickClear
    \/ SubmitFollowUp
    \/ ClickLoad
    \/ ClickDeleteItem
    \/ ClickClearAll
    \/ StartSettles
    \/ SendSettles
    \/ Microtask

SpecUI == Init /\ [][NextUI]_vars


\* ------------------------------------------------------------------
\* Properties of the key list, the analysis handlers and the history.
\* ------------------------------------------------------------------

ActiveCount(keys) == Cardinality({ n \in 1..Len(keys) : keys[n].isActive })

\* The keys of the list before the step that are still listed after it.
Remaining == SelectSeq(apiKeys, LAMBDA key : key.id \in { apiKeys'[n].id : n \in 1..Len(apiKeys') })

C21_KeyStep ==
    /\ (last' = "handleAddKey" /\ apiKeys = << >>) =>
           Len(apiKeys') = 1 /\ apiKeys'[1].isActive
    /\ last' \in {"handleDelete", "handleDelete:activates"} =>
           /\ Len(Remaining) = Len(apiKeys) - 1
           /\ Len(apiKeys') = Len(Remaining)
           /\ \A n \in 1..Len(Remaining) : apiKeys'[n].id = Remaining[n].id
           /\ (ActiveCount(apiKeys) = 1 /\ ActiveCount(Remaining) = 0 /\ Len(Remaining) > 0) =>
                  /\ apiKeys'[1].isActive
                  /\ apiKeys'[1].id = Remaining[1].id

\* C21: starting from an empty key list, after any sequence of handleAddKey,
\* handleActivate of a listed key and confirmed handleDelete, the list is
\* empty or holds exactly one active key; the first key added is active,
\* and deleting the active key activates the first remaining key.
C21_OneActiveKey ==
    /\ [](apiKeys = << >> \/ ActiveCount(apiKeys) = 1)
    /\ [][C21_KeyStep]_vars

\* The active key, second of three, was deleted and the first remaining
\* key took over.
C21_Witness ==
    /\ last = "handleDelete:activates"
    /\ Len(apiKeys) = 2
    /\ apiKeys[1].id = 1 /\ apiKeys[2].id = 3
    /\ apiKeys[1].isActive /\ ~apiKeys[2].isActive


IsBlank(t) == \A n \in 1..Len(t) : IsSpace(t[n])

\* What a call of handleStartAnalysis that stops at line 134 or 137 leaves
\* alone, the AI requests sent included.
startFrame == << originalText, modifiedText, selectedPersonaId, question, apiKeys,
                history, isHistoryOpen, messages, isAnalyzing, chatSessionRef,
                storedKeys, storedHistory, flight, micro, nextId, requests >>

C22_StartStep ==
    /\ last' = "handleStartAnalysis:nokey" =>
           /\ ActiveCount(apiKeys) = 0
           /\ isKeyModalOpen'
           /\ UNCHANGED startFrame
    /\ last' = "handleStartAnalysis:blank" =>
           /\ ActiveCount(apiKeys) > 0
           /\ IsBlank(originalText) \/ IsBlank(modifiedText)
           /\ UNCHANGED << startFrame, isKeyModalOpen, keyView >>
    /\ last' = "handleStartAnalysis" =>
           /\ ActiveCount(apiKeys) > 0
           /\ ~IsBlank(originalText) /\ ~IsBlank(modifiedText)
           /\ Len(flight') = Len(flight) + 1

\* C22: handleStartAnalysis does nothing when its preconditions fail: with
\* no active key it only opens the key modal, with an active key but an
\* empty or whitespace-only original or modified text it changes nothing;
\* in both cases no AI request is sent and messages, history, isAnalyzing
\* and the chat session are unchanged.
C22_StartGuards == [][C22_StartStep]_vars

\* handleStartAnalysis returned at line 137 on a whitespace-only original
\* text, with an active key and a chat on the page.
C22_Witness ==
    /\ last = "handleStartAnalysis:blank"
    /\ ActiveCount(apiKeys) = 1
    /\ originalText = << 32 >>
    /\ Len(modifiedText) > 0
    /\ Len(messages) > 0


\* The step settles the n-th suspended handler, a handleStartAnalysis.
SettlesStart(n) ==
    /\ n \in 1..Len(flight)
    /\ flight[n].kind = "start"
    /\ flight' = RemoveAt(flight, n)

\* Ids are handed out in increasing order: an id is new in the step when no
\* message or item held it before.
IsNewId(id) == id >= nextId /\ id < nextId'

C23_ResolvedStep ==
    last' = "handleStartAnalysis:resolved" =>
        \E n \in 1..Len(flight) :
            /\ SettlesStart(n)
            /\ Len(messages') = 1
            /\ messages'[1].role = "model"
            /\ ~messages'[1].isError
            /\ messages'[1].text \in InitialResponses
            /\ IsNewId(messages'[1].id)
            /\ chatSessionRef' = StartedSession(flight[n].request)
            /\ chatSessionRef' # chatSessionRef
            /\ Len(history') >= 1
            /\ IsNewId(history'[1].id)
            /\ history'[1].originalText = flight[n].originalText
            /\ history'[1].modifiedText = flight[n].modifiedText
            /\ history'[1].persona = flight[n].persona
            /\ history'[1].question = flight[n].question
            /\ history'[1].messages = messages'
            /\ \A m \in 2..Len(history') : ~IsNewId(history'[m].id)
            /\ storedHistory' = Stored(history')

\* C23: a successful handleStartAnalysis replaces the chat by exactly one
\* model message holding the initial response, stores the new session, and
\* saves exactly one new history item, placed first in history, that records
\* the original text, modified text, persona, question and that message.
C23_StartSucceeds == [][C23_ResolvedStep]_vars

\* A second analysis, asked with a question, has succeeded: its item stands
\* before the item of the first.
C23_Witness ==
    /\ last = "handleStartAnalysis:resolved"
    /\ Len(history) = 2
    /\ history[1].question = << 63 >>
    /\ history[1].messages = messages
    /\ chatSessionRef.kind = "started"


\* C24: when the AI call of handleStartAnalysis fails, messages becomes
\* exactly one message with role 'model' and isError true, the chat session
\* stays null, and no item is added to history or to the persisted history.
C24_FailedStep ==
    last' = "handleStartAnalysis:rejected" =>
        /\ Len(messages') = 1
        /\ messages'[1].role = "model"
        /\ messages'[1].isError
        /\ chatSessionRef' = NoSession
        /\ history' = history
        /\ storedHistory' = storedHistory

C24_StartFails == [][C24_FailedStep]_vars


\* The handlers suspended at an await: AI requests and resumptions.
Pending == Len(flight) + Len(micro)

Settled == { "handleStartAnalysis:resolved", "handleStartAnalysis:rejected",
             "handleSendMessage:resolved", "handleSendMessage:rejected",
             "handleLoadHistory:resolved", "handleLoadHistory:rejected" }

C25_AnalyzingStep ==
    /\ last' \in {"handleStartAnalysis", "handleSendMessage", "handleLoadHistory"} =>
           isAnalyzing' /\ Pending' > 0
    /\ last' \in Settled =>
           ~isAnalyzing' /\ Pending' = Pending - 1

\* C25: isAnalyzing always returns to false: every handleStartAnalysis,
\* handleSendMessage or handleLoadHistory that sets isAnalyzing to true sets
\* it to false once its AI call settles, whether the call succeeds or
\* fails; isAnalyzing is never left true with no call to wait for.
C25_AnalyzingEnds ==
    /\ [](isAnalyzing => Pending > 0)
    /\ [][C25_AnalyzingStep]_vars

\* The AI call of the only handleStartAnalysis failed and isAnalyzing is
\* false again.
C25_Witness ==
    /\ last = "handleStartAnalysis:rejected"
    /\ Pending = 0
    /\ ~isAnalyzing
    /\ messages[1].isError


\* C26: at most one AI request issued by App is in flight at any time: no
\* user action reachable through the rendered UI can begin a
\* handleStartAnalysis or a handleSendMessage while a previous one has not
\* settled, and isAnalyzing is true for as long as a request is in flight.
C26_OneRequest ==
    /\ Len(flight) <= 1
    /\ flight # << >> => isAnalyzing


C27_ClearStep ==
    last' = "handleClear" =>
        /\ originalText' = << >>
        /\ modifiedText' = << >>
        /\ question' = << >>
        /\ messages' = << >>
        /\ chatSessionRef' = NoSession

\* C27: handleClear is final: after handleClear, original text, modified
\* text and question are empty, messages is empty and the chat session is
\* null, and messages and the session stay that way until the user next
\* invokes handleStartAnalysis or handleLoadHistory, also when an AI response
\* requested before the clear arrives after it.
C27_ClearIsFinal ==
    /\ [][C27_ClearStep]_vars
    /\ [](clearedSince => messages = << >> /\ chatSessionRef = NoSession)

\* C28: history deletions are not undone: an item removed by
\* handleDeleteHistoryItem, or any item present when handleClearHistory ran,
\* never reappears in history or in the persisted 'gemini_diff_history', also
\* when an analysis that was started before the deletion completes and saves
\* its own item after it.
C28_DeletionsStay ==
    /\ removedIds \cap ItemIds(history) = {}
    /\ removedIds \cap ItemIds(storedHistory.items) = {}

====
